---- MODULE Spec2Model ----
(***************************************************************************)
(* Per-user distributed lock of the backend: RedisLockManager.acquire_lock *)
(* and TTSLockMiddleware.dispatch (backend/libs/tts_lock.py).              *)
(*                                                                         *)
(* Every inbound request is an asyncio task.  A task is suspended only at  *)
(* an await, so one action is the code a task runs from one await to the   *)
(* next.  A completed store call (SET NX EX, DEL) is one atomic step of    *)
(* the store; a store call cut short by cancellation has either been       *)
(* applied by the store or not.                                            *)
(***************************************************************************)
EXTENDS Integers, Sequences, FiniteSets, TLC

\* Number of concurrent inbound requests of the model.
NumRequests == 2

Requests == 1..NumRequests

\* Tasks that call close() on the lock manager
NumClosers == 2
Closers == 1..NumClosers

\* Connection ids: each request creates at most one connection
Connections == 1..NumRequests

\* ----------------------------------------------------------------------
\* Program constants
\* ----------------------------------------------------------------------
max_retries == 7
\* base_delay = 0.1 s and max_delay = 4.0 s, in milliseconds
base_delay == 100
max_delay == 4000
lock_ttl_seconds == 300

\* Python's None; str(None) is "None"
None == "<None>"

Truthy(v) == v # None /\ v # ""

Str(v) == IF v = None THEN "None" ELSE v

Min(a, b) == IF a < b THEN a ELSE b

\* ----------------------------------------------------------------------
\* Requests: method, path, Authorization header, offered sub-protocols.
\* A header is absent (NoHeader, what headers.get returns as None) or
\* <<scheme prefix, rest>>; a sub-protocol is <<prefix, rest>>.
\* ----------------------------------------------------------------------
NoHeader == <<>>

TtsPath == "/v1/tts/"
SttPath == "/v1/user/new-conversation"

Request(m, p, a, s) == [method |-> m, path |-> p, auth |-> a, subprotocols |-> s]

RequestInputs ==
    { Request("POST", TtsPath, <<"Bearer ", "tok_alice">>, <<>>),
      Request("POST", TtsPath, <<"Bearer ", "tok_bob">>, <<>>),
      Request("POST", TtsPath, NoHeader, <<>>),
      Request("POST", TtsPath, <<"Bearer ", "tok_bad">>, <<>>),
      Request("POST", TtsPath, <<"Bearer ", "tok_nosub">>, <<>>),
      Request("POST", TtsPath, <<"Bearer ", "tok_emptysub">>, <<>>),
      Request("GET", TtsPath, <<"Bearer ", "tok_alice">>, <<>>),
      Request("GET", "/v1/tts/sample_rate", NoHeader, <<>>),
      Request("GET", SttPath, NoHeader, << <<"Bearer.", "tok_alice">> >>),
      Request("GET", SttPath, NoHeader,
              << <<"json", "">>, <<"Bearer.", "tok_bad">>, <<"Bearer.", "tok_alice">> >>) }

\* backend.security.decode_access_token: the payload of a token that
\* verifies, or a failure.  sub is what payload.get("sub") returns.
decode_access_token(token) ==
    CASE token = "tok_alice"    -> [ok |-> TRUE, sub |-> "alice"]
      [] token = "tok_bob"      -> [ok |-> TRUE, sub |-> "bob"]
      [] token = "tok_nosub"    -> [ok |-> TRUE, sub |-> None]
      [] token = "tok_emptysub" -> [ok |-> TRUE, sub |-> ""]
      [] OTHER                  -> [ok |-> FALSE, sub |-> None]

\* payload.get("sub") inside try/except Exception: return None
SubOf(token) ==
    LET payload == decode_access_token(token)
    IN  IF payload.ok THEN payload.sub ELSE None

_extract_user_id(request) ==
    LET auth_header == request.auth
    IN  IF auth_header = NoHeader THEN None
        ELSE IF auth_header[1] # "Bearer " THEN None
        ELSE SubOf(auth_header[2])

\* The first offered protocol that starts with "Bearer." decides.
RECURSIVE FirstBearer(_)
FirstBearer(subprotocols) ==
    IF subprotocols = <<>> THEN None
    ELSE IF Head(subprotocols)[1] = "Bearer." THEN SubOf(Head(subprotocols)[2])
    ELSE FirstBearer(Tail(subprotocols))

_extract_user_id_from_websocket(request) == FirstBearer(request.subprotocols)

\* The route tests of dispatch
IsTtsRouteAnyMethod(request) == request.path = TtsPath

IsTtsRoute(request) == request.method = "POST" /\ request.path = TtsPath

IsSttRoute(request) == request.path = SttPath

\* `if user_id:` of dispatch
ShouldLockAlways(user_id) == TRUE

ShouldLock(user_id) == Truthy(user_id)

\* ----------------------------------------------------------------------
\* Lock keys and the store
\* ----------------------------------------------------------------------
LockNames == {"tts", "stt"}

Identities == {"alice", "bob", "", None}

LockKeyNoUser(lock_name, user_id) == lock_name \o ":lock:"

\* lock_key = f"{lock_name}:lock:{user_id}"
LockKey(lock_name, user_id) == lock_name \o ":lock:" \o Str(user_id)

Keys == {LockKey(n, u) : n \in LockNames, u \in Identities} \cup
        {LockKeyNoUser(n, "") : n \in LockNames}

\* A lock record: the sentinel value and its expiry.  owner is not stored:
\* it records which request's SET created the record.
Absent == [value |-> "", ex |-> 0, owner |-> 0]

Record(ttl, who) == [value |-> "1", ex |-> ttl, owner |-> who]

\* client.set(lock_key, "1", nx=True, ex=ttl): the store after the call and
\* the reply
ClientSetNoNx(s, lock_key, ttl, who) ==
    [store |-> [s EXCEPT ![lock_key] = Record(ttl, who)], acquired |-> TRUE]

ClientSetNoEx(s, lock_key, ttl, who) ==
    IF s[lock_key] = Absent
    THEN [store |-> [s EXCEPT ![lock_key] = Record(0, who)], acquired |-> TRUE]
    ELSE [store |-> s, acquired |-> FALSE]

ClientSet(s, lock_key, ttl, who) ==
    IF s[lock_key] = Absent
    THEN [store |-> [s EXCEPT ![lock_key] = Record(ttl, who)], acquired |-> TRUE]
    ELSE [store |-> s, acquired |-> FALSE]

\* client.delete(lock_key): the store after the call, and whether the call
\* raised.  DEL of a key that is not there removes nothing and replies 0.
ClientDeleteStrict(s, lock_key) ==
    [store |-> [s EXCEPT ![lock_key] = Absent], error |-> s[lock_key] = Absent]

\* a release by wildcard: every lock key is deleted
ClientDeleteAll(s, lock_key) ==
    [store |-> [k \in DOMAIN s |-> Absent], error |-> FALSE]

ClientDelete(s, lock_key) ==
    [store |-> [s EXCEPT ![lock_key] = Absent], error |-> FALSE]

\* How the call ends once the finally has run: an exception of the finally
\* replaces the outcome, otherwise the outcome of the guarded operation
\* leaves acquire_lock and dispatch as it is.
AfterReleaseSwallow(outcome, del_error) ==
    IF del_error THEN "store_error"
    ELSE IF outcome = "error" THEN "ok" ELSE outcome

AfterRelease(outcome, del_error) ==
    IF del_error THEN "store_error" ELSE outcome

\* delay = min(base_delay * (2**attempt), max_delay)
DelayNoCap(attempt) == base_delay * (2 ^ attempt)

Delay(attempt) == Min(base_delay * (2 ^ attempt), max_delay)

\* Where a task goes when the guarded operation gives control back with
\* outcome "ok", "error" or "cancelled": try: yield / finally: delete
AfterYieldNoFinally(outcome) == IF outcome = "ok" THEN "release" ELSE "done"

AfterYield(outcome) == "release"

\* ----------------------------------------------------------------------
\* State
\* ----------------------------------------------------------------------
VARIABLES
    req,        \* the request each task handles
    pc,         \* where each task is suspended
    lock_key,   \* acquire_lock's lock_key, None outside acquire_lock
    attempt,    \* the loop variable of acquire_lock
    delay,      \* acquire_lock's delay, in milliseconds
    response,   \* how dispatch ended, or will end once the lock is released
    client,     \* RedisLockManager._client: a connection id, 0 for None
    conns,      \* connections created so far
    store,      \* the coordination store: key -> record
    obs,        \* per request: what it did (history)
    hist,       \* per key: what happened to its records (history)
    closer,     \* each task calling RedisLockManager.close(): where it is
    closes,     \* per connection: the close() calls made on it
    body        \* per request: the audio body of its StreamingResponse

vars == <<req, pc, lock_key, attempt, delay, response, client, conns, store, obs, hist,
          closer, closes, body>>

\* attempt and delay live while the retry loop runs.  Nothing reads them
\* once the SET succeeded or the call ended: they are cleared then.  The
\* connection get_client hands to a task is not kept per task: every
\* connection reaches the same store.
NoObs == [handlerCalls |-> 0, extractCalls |-> 0, storeIO |-> FALSE, dels |-> 0,
          entered |-> FALSE, created |-> FALSE, cancelledAt |-> "",
          storeFailed |-> FALSE]

NoHist == [expiredUnderHolder |-> FALSE]

InSection(r) == pc[r] \in {"guarded", "release"}

Init ==
    /\ req \in [Requests -> RequestInputs]
    /\ pc = [r \in Requests |-> "start"]
    /\ lock_key = [r \in Requests |-> None]
    /\ attempt = [r \in Requests |-> 0]
    /\ delay = [r \in Requests |-> 0]
    /\ response = [r \in Requests |-> "none"]
    /\ client = 0
    /\ conns = 0
    /\ store = [k \in Keys |-> Absent]
    /\ obs = [r \in Requests |-> NoObs]
    /\ hist = [k \in Keys |-> NoHist]
    /\ closer = [c \in Closers |-> [pc |-> "idle", conn |-> 0]]
    /\ closes = [n \in Connections |-> 0]
    /\ body = [r \in Requests |-> "none"]

\* ----------------------------------------------------------------------
\* TTSLockMiddleware.dispatch, up to its first await
\* ----------------------------------------------------------------------
\* acquire_lock up to its first await: the key, then get_client
EnterAcquire(r, user_id, lock_name, extracts) ==
    /\ lock_key' = [lock_key EXCEPT ![r] = LockKey(lock_name, user_id)]
    /\ pc' = [pc EXCEPT ![r] = IF client = 0 THEN "connecting" ELSE "set"]
    /\ obs' = [obs EXCEPT ![r].extractCalls = extracts]
    /\ UNCHANGED <<req, attempt, delay, response, client, conns, store, hist, closer, closes, body>>

\* return await call_next(request), outside any lock
CallNext(r, extracts) ==
    /\ pc' = [pc EXCEPT ![r] = "handler"]
    /\ obs' = [obs EXCEPT ![r].extractCalls = extracts, ![r].handlerCalls = @ + 1]
    /\ UNCHANGED <<req, lock_key, attempt, delay, response, client, conns, store, hist, closer, closes, body>>

Dispatch(r) ==
    /\ pc[r] = "start"
    /\ LET request == req[r]
           tts == IsTtsRoute(request)
           tts_user == IF tts THEN _extract_user_id(request) ELSE None
           stt == IsSttRoute(request)
           stt_user == IF stt THEN _extract_user_id_from_websocket(request) ELSE None
       IN  IF tts /\ ShouldLock(tts_user)
           THEN EnterAcquire(r, tts_user, "tts", 1)
           ELSE IF stt /\ ShouldLock(stt_user)
           THEN EnterAcquire(r, stt_user, "stt", (IF tts THEN 1 ELSE 0) + 1)
           ELSE CallNext(r, (IF tts THEN 1 ELSE 0) + (IF stt THEN 1 ELSE 0))

\* ----------------------------------------------------------------------
\* RedisLockManager
\* ----------------------------------------------------------------------
\* get_client: await aioredis.from_url(...) returns and is assigned
Connected(r) ==
    /\ pc[r] = "connecting"
    /\ conns' = conns + 1
    /\ client' = conns + 1
    /\ pc' = [pc EXCEPT ![r] = "set"]
    /\ obs' = [obs EXCEPT ![r].storeIO = TRUE]
    /\ UNCHANGED <<req, lock_key, attempt, delay, response, store, hist, closer, closes, body>>

\* acquired = await client.set(...); on success the task runs up to
\* await call_next(request), otherwise up to await asyncio.sleep(delay)
\* a lock with a queue: an attempt is refused while an earlier arrival
\* still attempts the same key
SetNxFifo(r) ==
    /\ pc[r] = "set"
    /\ LET ahead == \E q \in Requests :
                        /\ q < r
                        /\ lock_key[q] = lock_key[r]
                        /\ pc[q] \in {"connecting", "set", "sleep"}
           res == IF ahead THEN [store |-> store, acquired |-> FALSE]
                  ELSE ClientSet(store, lock_key[r], lock_ttl_seconds, r)
       IN  /\ store' = res.store
           /\ IF res.acquired
              THEN /\ pc' = [pc EXCEPT ![r] = "guarded"]
                   /\ attempt' = [attempt EXCEPT ![r] = 0]
                   /\ delay' = [delay EXCEPT ![r] = 0]
                   /\ obs' = [obs EXCEPT ![r].storeIO = TRUE, ![r].entered = TRUE,
                                         ![r].created = TRUE, ![r].handlerCalls = @ + 1]
              ELSE /\ pc' = [pc EXCEPT ![r] = "sleep"]
                   /\ attempt' = attempt
                   /\ delay' = [delay EXCEPT ![r] = Delay(attempt[r])]
                   /\ obs' = [obs EXCEPT ![r].storeIO = TRUE]
    /\ UNCHANGED <<req, lock_key, response, client, conns, hist, closer, closes, body>>

SetNx(r) ==
    /\ pc[r] = "set"
    /\ LET res == ClientSet(store, lock_key[r], lock_ttl_seconds, r)
       IN  /\ store' = res.store
           /\ IF res.acquired
              THEN /\ pc' = [pc EXCEPT ![r] = "guarded"]
                   /\ attempt' = [attempt EXCEPT ![r] = 0]
                   /\ delay' = [delay EXCEPT ![r] = 0]
                   /\ obs' = [obs EXCEPT ![r].storeIO = TRUE, ![r].entered = TRUE,
                                         ![r].created = TRUE, ![r].handlerCalls = @ + 1]
              ELSE /\ pc' = [pc EXCEPT ![r] = "sleep"]
                   /\ attempt' = attempt
                   /\ delay' = [delay EXCEPT ![r] = Delay(attempt[r])]
                   /\ obs' = [obs EXCEPT ![r].storeIO = TRUE]
    /\ UNCHANGED <<req, lock_key, response, client, conns, hist, closer, closes, body>>

\* client.set raises: nothing in acquire_lock catches it, and it is no
\* HTTPException for dispatch: the request fails with that error
OnStoreErrorAsHeld(r) ==
    /\ pc' = [pc EXCEPT ![r] = "sleep"]
    /\ delay' = [delay EXCEPT ![r] = Delay(attempt[r])]
    /\ UNCHANGED <<attempt, response>>

OnStoreError(r) ==
    /\ pc' = [pc EXCEPT ![r] = "done"]
    /\ response' = [response EXCEPT ![r] = "store_error"]
    /\ attempt' = [attempt EXCEPT ![r] = 0]
    /\ delay' = [delay EXCEPT ![r] = 0]

\* await client.set(...) fails with a transport error of the store
SetError(r) ==
    /\ pc[r] = "set"
    /\ OnStoreError(r)
    /\ obs' = [obs EXCEPT ![r].storeIO = TRUE, ![r].storeFailed = TRUE]
    /\ UNCHANGED <<req, lock_key, client, conns, store, hist, closer, closes, body>>

\* The HTTPException of acquire_lock reaches dispatch, which re-raises it
RaiseExhaustedOpen(r) ==
    /\ pc' = [pc EXCEPT ![r] = "handler"]
    /\ obs' = [obs EXCEPT ![r].handlerCalls = @ + 1]
    /\ UNCHANGED <<response, store>>

\* a finally around the whole loop: the DEL is issued without the lock
RaiseExhaustedRelease(r) ==
    /\ pc' = [pc EXCEPT ![r] = "done"]
    /\ response' = [response EXCEPT ![r] = "429"]
    /\ store' = ClientDelete(store, lock_key[r]).store
    /\ obs' = [obs EXCEPT ![r].dels = @ + 1]

RaiseExhausted(r) ==
    /\ pc' = [pc EXCEPT ![r] = "done"]
    /\ response' = [response EXCEPT ![r] = "429"]
    /\ UNCHANGED <<obs, store>>

\* `while True` in place of `for attempt in range(max_retries)`
WakeUnbounded(r) ==
    /\ pc[r] = "sleep"
    /\ attempt' = [attempt EXCEPT ![r] = @ + 1]
    /\ pc' = [pc EXCEPT ![r] = "set"]
    /\ UNCHANGED <<delay, response, obs, store>>
    /\ UNCHANGED <<req, lock_key, client, conns, hist, closer, closes, body>>

\* asyncio.sleep(delay) returns: next attempt, or the loop is over
Wake(r) ==
    /\ pc[r] = "sleep"
    /\ IF attempt[r] + 1 < max_retries
       THEN /\ attempt' = [attempt EXCEPT ![r] = @ + 1]
            /\ pc' = [pc EXCEPT ![r] = "set"]
            /\ UNCHANGED <<delay, response, obs, store>>
       ELSE /\ attempt' = [attempt EXCEPT ![r] = 0]
            /\ delay' = [delay EXCEPT ![r] = 0]
            /\ RaiseExhausted(r)
    /\ UNCHANGED <<req, lock_key, client, conns, hist, closer, closes, body>>

\* call_next returns a response, under the lock or outside any lock
HandlerReturn(r) ==
    /\ pc[r] \in {"guarded", "handler"}
    /\ pc' = [pc EXCEPT ![r] = IF pc[r] = "guarded" THEN AfterYield("ok") ELSE "done"]
    /\ response' = [response EXCEPT ![r] = "ok"]
    /\ UNCHANGED <<req, lock_key, attempt, delay, client, conns, store, obs, hist, closer, closes, body>>

\* call_next raises
HandlerRaise(r) ==
    /\ pc[r] \in {"guarded", "handler"}
    /\ pc' = [pc EXCEPT ![r] = IF pc[r] = "guarded" THEN AfterYield("error") ELSE "done"]
    /\ response' = [response EXCEPT ![r] = "error"]
    /\ UNCHANGED <<req, lock_key, attempt, delay, client, conns, store, obs, hist, closer, closes, body>>

\* finally: await client.delete(lock_key); then acquire_lock is left
Release(r) ==
    /\ pc[r] = "release"
    /\ LET res == ClientDelete(store, lock_key[r])
       IN  /\ store' = res.store
           /\ response' = [response EXCEPT ![r] = AfterRelease(@, res.error)]
    /\ pc' = [pc EXCEPT ![r] = "done"]
    /\ obs' = [obs EXCEPT ![r].dels = @ + 1]
    /\ UNCHANGED <<req, lock_key, attempt, delay, client, conns, hist, closer, closes, body>>

\* ----------------------------------------------------------------------
\* Cancellation of a task at the await it is suspended in
\* ----------------------------------------------------------------------
\* at await client.set(...): the store may or may not have applied the SET
CancelInSet(r) ==
    /\ pc[r] = "set"
    /\ \E applied \in BOOLEAN :
          LET res == ClientSet(store, lock_key[r], lock_ttl_seconds, r)
          IN  /\ store' = IF applied THEN res.store ELSE store
              /\ obs' = [obs EXCEPT ![r].cancelledAt = "retry",
                                    ![r].storeIO = TRUE,
                                    ![r].created = applied /\ res.acquired]
    /\ pc' = [pc EXCEPT ![r] = "done"]
    /\ response' = [response EXCEPT ![r] = "cancelled"]
    /\ attempt' = [attempt EXCEPT ![r] = 0]
    /\ delay' = [delay EXCEPT ![r] = 0]
    /\ UNCHANGED <<req, lock_key, client, conns, hist, closer, closes, body>>

\* at await asyncio.sleep(delay)
CancelInSleep(r) ==
    /\ pc[r] = "sleep"
    /\ pc' = [pc EXCEPT ![r] = "done"]
    /\ response' = [response EXCEPT ![r] = "cancelled"]
    /\ obs' = [obs EXCEPT ![r].cancelledAt = "retry"]
    /\ attempt' = [attempt EXCEPT ![r] = 0]
    /\ delay' = [delay EXCEPT ![r] = 0]
    /\ UNCHANGED <<req, lock_key, client, conns, store, hist, closer, closes, body>>

\* at await call_next(request)
CancelInHandler(r) ==
    /\ pc[r] \in {"guarded", "handler"}
    /\ pc' = [pc EXCEPT ![r] = IF pc[r] = "guarded" THEN AfterYield("cancelled") ELSE "done"]
    /\ response' = [response EXCEPT ![r] = "cancelled"]
    /\ obs' = [obs EXCEPT ![r].cancelledAt = pc[r]]
    /\ UNCHANGED <<req, lock_key, attempt, delay, client, conns, store, hist, closer, closes, body>>

\* ----------------------------------------------------------------------
\* Environment: the holder's process dies; the store expires a record
\* ----------------------------------------------------------------------
Crash(r) ==
    /\ pc[r] = "guarded"
    /\ pc' = [pc EXCEPT ![r] = "crashed"]
    /\ UNCHANGED <<req, lock_key, attempt, delay, response, client, conns, store, obs, hist, closer, closes, body>>

Abandoned(k) ==
    /\ store[k] # Absent
    /\ pc[store[k].owner] \in {"crashed", "done"}

\* The TTL given by ex= has elapsed
Expire(k) ==
    /\ store[k] # Absent
    /\ store[k].ex > 0
    /\ store' = [store EXCEPT ![k] = Absent]
    /\ hist' = [hist EXCEPT
                  ![k].expiredUnderHolder = @ \/ InSection(store[k].owner)]
    /\ UNCHANGED <<req, pc, lock_key, attempt, delay, response, client, conns, obs, closer, closes, body>>

\* Every step but the arrival of a request
Steps ==
    \/ \E r \in Requests : Connected(r)
    \/ \E r \in Requests : SetNx(r)
    \/ \E r \in Requests : SetError(r)
    \/ \E r \in Requests : Wake(r)
    \/ \E r \in Requests : HandlerReturn(r)
    \/ \E r \in Requests : HandlerRaise(r)
    \/ \E r \in Requests : Release(r)
    \/ \E r \in Requests : CancelInSet(r)
    \/ \E r \in Requests : CancelInSleep(r)
    \/ \E r \in Requests : CancelInHandler(r)
    \/ \E r \in Requests : Crash(r)
    \/ \E k \in Keys : Expire(k)

Next ==
    \/ \E r \in Requests : Dispatch(r)
    \/ Steps

Spec == Init /\ [][Next]_vars

\* ----------------------------------------------------------------------
\* RedisLockManager.close, called by TTSLockMiddleware.close
\* ----------------------------------------------------------------------
\* if self._client: await self._client.close() -- up to the await; with no
\* client the call returns at once
CloseCall(c) ==
    /\ closer[c].pc = "idle"
    /\ IF client # 0
       THEN /\ closer' = [closer EXCEPT ![c] = [pc |-> "closing", conn |-> client]]
            /\ closes' = [closes EXCEPT ![client] = @ + 1]
       ELSE /\ closer' = [closer EXCEPT ![c] = [pc |-> "done", conn |-> 0]]
            /\ UNCHANGED closes
    /\ UNCHANGED <<req, pc, lock_key, attempt, delay, response, client, conns, store,
                   obs, hist, body>>

\* the await returns: self._client = None
CloseReturn(c) ==
    /\ closer[c].pc = "closing"
    /\ client' = 0
    /\ closer' = [closer EXCEPT ![c] = [pc |-> "done", conn |-> 0]]
    /\ UNCHANGED <<req, pc, lock_key, attempt, delay, response, conns, store,
                   obs, hist, closes, body>>

NextClose ==
    \/ Next
    \/ \E c \in Closers : CloseCall(c)
    \/ \E c \in Closers : CloseReturn(c)

\* Reclamation concerns one key: the behaviours in which every request is
\* a POST /v1/tts/ of the same user, so that all of them contend for it.
ContendedInit ==
    /\ Init
    /\ \A r \in Requests :
          IsTtsRoute(req[r]) /\ _extract_user_id(req[r]) = "alice"

\* ----------------------------------------------------------------------
\* The body of the StreamingResponse the TTS handler returned
\* ----------------------------------------------------------------------
\* The handler returns the StreamingResponse around a generator that has
\* not run; call_next returns it to dispatch, which returns it out of the
\* `async with`.  The generator is iterated by whoever sends the response:
\* its first iteration starts the synthesis.
BodyStart(r) ==
    /\ IsTtsRoute(req[r])
    /\ response[r] = "ok"
    /\ pc[r] \in {"release", "done"}
    /\ body[r] = "none"
    /\ body' = [body EXCEPT ![r] = "streaming"]
    /\ UNCHANGED <<req, pc, lock_key, attempt, delay, response, client, conns, store,
                   obs, hist, closer, closes>>

\* The last chunk was sent: the response dispatch returned is complete
BodyEnd(r) ==
    /\ body[r] = "streaming"
    /\ pc[r] = "done"
    /\ body' = [body EXCEPT ![r] = "sent"]
    /\ UNCHANGED <<req, pc, lock_key, attempt, delay, response, client, conns, store,
                   obs, hist, closer, closes>>

NextStream ==
    \/ Next
    \/ \E r \in Requests : BodyStart(r)
    \/ \E r \in Requests : BodyEnd(r)

\* The requests of one user with the bodies of their responses
StreamSpec == ContendedInit /\ [][NextStream]_vars

\* The requests with the manager being closed by the closers
CloseSpec == ContendedInit /\ [][NextClose]_vars

\* The steps of a request's own task: the event loop resumes a task whose
\* await has completed, the guarded operation terminates.
Progress(r) ==
    \/ Dispatch(r)
    \/ Connected(r)
    \/ SetNx(r)
    \/ Wake(r)
    \/ HandlerReturn(r)
    \/ HandlerRaise(r)
    \/ Release(r)

\* Requests contending for one key, each task being run on
TermSpec == ContendedInit /\ [][Next]_vars /\ \A r \in Requests : WF_vars(Progress(r))

\* The behaviours in which the requests arrive in the order of their
\* numbers: of two requests, the one of the lower number is the earlier.
ArriveInOrder(r) ==
    /\ \A q \in Requests : q < r => pc[q] # "start"
    /\ Dispatch(r)

NextOrdered ==
    \/ \E r \in Requests : ArriveInOrder(r)
    \/ Steps

OrderedSpec == ContendedInit /\ [][NextOrdered]_vars

\* The store enforces the TTL: a record with an expiry does expire.
FairSpec == ContendedInit /\ [][Next]_vars /\ \A k \in Keys : WF_vars(Expire(k))

\* ======================================================================
\* Properties
\* ======================================================================
\* The gated routes as the specification names them
OnTtsRoute(r) == req[r].method = "POST" /\ req[r].path = "/v1/tts/"

OnSttRoute(r) == req[r].path = "/v1/user/new-conversation"

OnGatedRoute(r) == OnTtsRoute(r) \/ OnSttRoute(r)

\* The user id the request's credential carries, None when extraction fails
IdentityOf(r) ==
    IF OnTtsRoute(r) THEN _extract_user_id(req[r])
    ELSE IF OnSttRoute(r) THEN _extract_user_id_from_websocket(req[r])
    ELSE None

Unauthenticated(r) == OnGatedRoute(r) /\ ~Truthy(IdentityOf(r))

\* Task r took a step
Stepped(r) == pc'[r] # pc[r]

\* ---------------------------------------------------------------------
\* C1: mutual exclusion.  Two different callers on the same lock key are
\* never both inside the guarded section (between the successful SET NX
\* and the DEL), as long as no record of that key expired by TTL while its
\* holder was still inside the section.
C1_MutualExclusion ==
    \A r1, r2 \in Requests :
        (r1 # r2 /\ InSection(r1) /\ InSection(r2) /\ lock_key[r1] = lock_key[r2])
            => hist[lock_key[r1]].expiredUnderHolder

\* One caller holds the key while another, on the same key, was refused
C1_Witness ==
    \E r1, r2 \in Requests :
        /\ r1 # r2
        /\ lock_key[r1] = lock_key[r2]
        /\ pc[r1] = "guarded"
        /\ pc[r2] = "sleep"
        /\ ~hist[lock_key[r1]].expiredUnderHolder

C3_Exhaustion ==
    [][\A r \in Requests :
          /\ (pc[r] = "sleep" /\ attempt[r] = 6 /\ Stepped(r))
                => /\ pc'[r] = "done"
                   /\ response'[r] \in {"429", "cancelled"}
                   /\ obs[r].cancelledAt = "" /\ obs'[r].cancelledAt = ""
                         => response'[r] = "429"
                   /\ obs'[r].handlerCalls = 0
          /\ response'[r] = "429"
                => /\ pc'[r] = "done"
                   /\ ~obs'[r].entered
                   /\ obs'[r].handlerCalls = 0]_vars

\* A request was rejected with 429 while the key was held by another
C3_Witness ==
    \E r \in Requests :
        /\ response[r] = "429"
        /\ store[lock_key[r]] # Absent
        /\ store[lock_key[r]].owner # r

\* ---------------------------------------------------------------------
\* C4: fail-closed on identity.  A request on a gated route whose identity
\* extraction fails is answered 401 and its downstream handler is never
\* invoked.
C4_FailClosed ==
    \A r \in Requests :
        Unauthenticated(r)
            => /\ obs[r].handlerCalls = 0
               /\ pc[r] = "done" => response[r] = "401"

\* ---------------------------------------------------------------------
\* C5: unauthenticated short-circuit.  A request on a gated route with no
\* extractable user id never reaches the lock manager: it creates no
\* connection, issues no SET and no DEL, and none of its steps changes the
\* store.
C5_NoStoreIO ==
    /\ [](\A r \in Requests :
            Unauthenticated(r)
                => /\ ~obs[r].storeIO
                   /\ obs[r].dels = 0
                   /\ ~obs[r].created
                   /\ lock_key[r] = None
                   /\ pc[r] \in {"start", "handler", "done"})
    /\ [][\A r \in Requests :
            (Unauthenticated(r) /\ Stepped(r))
                => (store' = store /\ client' = client /\ conns' = conns)]_vars

\* Such a request has been handled while another request's record is held
C5_Witness ==
    \E r \in Requests :
        /\ Unauthenticated(r)
        /\ pc[r] = "done"
        /\ \E k \in Keys : store[k] # Absent

\* ---------------------------------------------------------------------
\* C6: pass-through.  A request that matches no gated route is forwarded
\* to the downstream handler exactly once, with no identity extraction, no
\* store I/O and no lock record created or deleted.
C6_PassThrough ==
    /\ [](\A r \in Requests :
            ~OnGatedRoute(r)
                => /\ obs[r].extractCalls = 0
                   /\ ~obs[r].storeIO
                   /\ obs[r].dels = 0
                   /\ ~obs[r].created
                   /\ lock_key[r] = None
                   /\ obs[r].handlerCalls = (IF pc[r] = "start" THEN 0 ELSE 1))
    /\ [][\A r \in Requests :
            (~OnGatedRoute(r) /\ Stepped(r))
                => (store' = store /\ client' = client /\ conns' = conns)]_vars

\* A GET on the TTS path has been passed through
C6_Witness ==
    \E r \in Requests :
        /\ ~OnGatedRoute(r)
        /\ req[r].path = "/v1/tts/"
        /\ pc[r] = "done"
        /\ response[r] = "ok"

\* ---------------------------------------------------------------------
\* C7: independence across users.  Callers of different users have
\* different lock keys, and a SET NX is refused only because of a record
\* that a caller of the same user created.
C7_Independence ==
    /\ [](\A r1, r2 \in Requests :
            (lock_key[r1] # None /\ lock_key[r2] # None /\ IdentityOf(r1) # IdentityOf(r2))
                => lock_key[r1] # lock_key[r2])
    /\ [][\A r \in Requests :
            (pc[r] = "set" /\ pc'[r] = "sleep")
                => /\ store[lock_key[r]] # Absent
                   /\ IdentityOf(store[lock_key[r]].owner) = IdentityOf(r)]_vars

\* Two users hold the lock of the same name at the same time
C7_Witness ==
    \E r1, r2 \in Requests :
        /\ IdentityOf(r1) # IdentityOf(r2)
        /\ OnTtsRoute(r1) /\ OnTtsRoute(r2)
        /\ pc[r1] = "guarded" /\ pc[r2] = "guarded"
        /\ store[lock_key[r1]].owner = r1
        /\ store[lock_key[r2]].owner = r2

\* ---------------------------------------------------------------------
\* C8: backoff schedule.  The first attempt is attempt 0, a wait is
\* followed by the next attempt, and the wait after refused attempt k is
\* the k-th of 100, 200, 400, 800, 1600, 3200, 4000 milliseconds; no wait
\* exceeds 4000 ms.
BackoffSchedule == <<100, 200, 400, 800, 1600, 3200, 4000>>

C8_Backoff ==
    /\ [](\A r \in Requests : delay[r] <= 4000 /\ attempt[r] \in 0..6)
    /\ [][\A r \in Requests :
            /\ (pc[r] \in {"start", "connecting"} /\ pc'[r] = "set") => attempt'[r] = 0
            /\ (pc[r] = "sleep" /\ pc'[r] = "set") => attempt'[r] = attempt[r] + 1
            /\ (pc[r] = "set" /\ pc'[r] = "sleep")
                  => /\ attempt'[r] = attempt[r]
                     /\ delay'[r] = BackoffSchedule[attempt[r] + 1]]_vars

\* The seventh wait, capped at 4000 ms
C8_Witness ==
    \E r \in Requests : pc[r] = "sleep" /\ attempt[r] = 6 /\ delay[r] = 4000

\* ---------------------------------------------------------------------
\* C9: TTL reclamation.  A record whose creator is gone without deleting
\* it (crashed, or cancelled before it saw the reply) is eventually removed
\* from the store, so the key does not stay taken forever; and a SET NX
\* that completes while the key is absent succeeds, whoever created the
\* record before.
C9_Reclaimed ==
    /\ \A k \in Keys : Abandoned(k) ~> (store[k] = Absent)
    /\ [][\A r \in Requests :
            (pc[r] = "set" /\ store[lock_key[r]] = Absent /\ Stepped(r)
                /\ response'[r] \notin {"cancelled", "store_error"})
                => (pc'[r] = "guarded" /\ store'[lock_key[r]].owner = r)]_vars

\* After the holder crashed, a different caller holds the same key
C9_Witness ==
    \E r1, r2 \in Requests :
        /\ r1 # r2
        /\ lock_key[r1] = lock_key[r2]
        /\ pc[r1] = "crashed"
        /\ pc[r2] = "guarded"
        /\ store[lock_key[r2]].owner = r2
        /\ ~hist[lock_key[r2]].expiredUnderHolder

\* ---------------------------------------------------------------------
\* C10: cancellation.  A caller cancelled in the retry loop before any of
\* its SET NX calls succeeded issues no DEL; a caller cancelled after its
\* SET NX succeeded and before the guarded operation completed has issued
\* its DEL when it is done.
C10_Cancellation ==
    \A r \in Requests :
        (pc[r] = "done" /\ response[r] = "cancelled" /\ lock_key[r] # None)
            => obs[r].dels = (IF obs[r].created THEN 1 ELSE 0)

C12_StoreUnavailable ==
    \A r \in Requests :
        obs[r].storeFailed
            => /\ pc[r] = "done"
               /\ response[r] = "store_error"
               /\ response[r] # "429"
               /\ ~obs[r].entered
               /\ obs[r].handlerCalls = 0
               /\ obs[r].dels = 0

\* The store failed at a later attempt of a caller that had been refused:
\* the other caller of the key is still in the guarded section
C12_Witness ==
    \E r1, r2 \in Requests :
        /\ r1 # r2
        /\ lock_key[r1] = lock_key[r2]
        /\ obs[r1].storeFailed
        /\ pc[r2] = "guarded"

\* ---------------------------------------------------------------------
\* C14: idempotent release.  The DEL of a holder whose lock key is no
\* longer in the store (the record expired by TTL, or was deleted before)
\* changes no record of the store and raises nothing: the holder leaves
\* acquire_lock with the outcome of its guarded operation.
C14_IdempotentRelease ==
    [][\A r \in Requests :
          (pc[r] = "release" /\ store[lock_key[r]] = Absent /\ Stepped(r))
              => /\ store' = store
                 /\ pc'[r] = "done"
                 /\ response'[r] = response[r]
                 /\ response'[r] # "store_error"]_vars

\* A holder whose record expired under it has issued its DEL and left
\* with the result of its handler, the key being absent
C14_Witness ==
    \E r \in Requests :
        /\ pc[r] = "done" /\ response[r] = "ok"
        /\ obs[r].entered /\ obs[r].dels = 1
        /\ hist[lock_key[r]].expiredUnderHolder
        /\ store[lock_key[r]] = Absent

\* ---------------------------------------------------------------------
\* C16: no leaked state on contention failure.  A call that ends with the
\* 429 error created no record and issued no DEL, no record of the store
\* is its own, and none of the steps of its retry loop (a refused SET NX,
\* the end of a wait) changes the store.
C16_NoLeak ==
    /\ [](\A r \in Requests :
            response[r] = "429"
                => /\ ~obs[r].created
                   /\ obs[r].dels = 0
                   /\ \A k \in Keys : store[k].owner # r)
    /\ [][\A r \in Requests :
            (Stepped(r) /\ (pc'[r] = "sleep" \/ response'[r] = "429"))
                => store' = store]_vars

\* A call ended with 429 and the record of the key, another caller's, is
\* still in the store
C16_Witness ==
    \E r1, r2 \in Requests :
        /\ r1 # r2
        /\ response[r1] = "429"
        /\ lock_key[r1] = lock_key[r2]
        /\ store[lock_key[r1]].owner = r2

\* ---------------------------------------------------------------------
\* C13: single shared connection.  With no close() in between, whatever
\* the interleaving of the callers of get_client, the manager creates at
\* most one connection to the store: the connection counter never passes
\* one and the manager's client is that first connection.
C13_SingleConnection ==
    /\ conns <= 1
    /\ client \in {0, 1}

\* ---------------------------------------------------------------------
\* C15: idempotent close.  However many times and from however many tasks
\* close() is called, before or after a connection exists, no connection
\* has close() called on it more than once, and a close() that has
\* returned leaves the manager without a connection.
C15_IdempotentClose ==
    /\ [](\A n \in Connections : closes[n] <= 1)
    /\ [][\A c \in Closers :
            (closer[c].pc # "done" /\ closer'[c].pc = "done") => client' = 0]_vars

\* ---------------------------------------------------------------------
\* C17: the lock covers the guarded operation.  While the audio body of a
\* gated POST /v1/tts/ that acquired the lock is being generated and
\* streamed, its caller has not issued its DEL, and the bodies of two
\* requests on the same lock key are never being streamed at once.
C17_LockCoversStreaming ==
    /\ \A r \in Requests :
          (body[r] = "streaming" /\ obs[r].entered) => obs[r].dels = 0
    /\ \A r1, r2 \in Requests :
          (r1 # r2 /\ lock_key[r1] = lock_key[r2] /\ lock_key[r1] # None)
              => ~(body[r1] = "streaming" /\ body[r2] = "streaming")

\* ---------------------------------------------------------------------
\* The states of an acquire_lock call, read off the task
Attempting(r) == pc[r] \in {"connecting", "set", "sleep"}
Acquired(r) == InSection(r)
Released(r) == pc[r] = "done" /\ obs[r].entered /\ obs[r].dels = 1
Exhausted(r) == pc[r] = "done" /\ response[r] = "429" /\ ~obs[r].entered

\* The call was cancelled in the retry loop, its process was killed, or
\* a store call raised
Aborted(r) ==
    \/ obs[r].cancelledAt = "retry"
    \/ pc[r] = "crashed"
    \/ obs[r].storeFailed

\* C18 as stated: every acquire_lock call that is over and whose store
\* calls returned is Released or Exhausted.
C18_AsStated ==
    \A r \in Requests :
        (pc[r] = "done" /\ lock_key[r] # None /\ ~obs[r].storeFailed)
            => (Released(r) \/ Exhausted(r))

\* C18: the acquisition state machine terminates.  Every acquire_lock
\* call eventually is Released or Exhausted, unless it is cancelled while
\* attempting, its process is killed or a store call raises.  Its steps
\* follow Idle -> Attempting -> Acquired -> Released or Idle -> Attempting
\* -> Exhausted, its SET NX attempts are numbered 0..6 in increasing
\* order (at most seven), and the held state is left only by the DEL of
\* the release (or the death of the process).
C18_Terminates ==
    /\ \A r \in Requests :
          Attempting(r) ~> (Released(r) \/ Exhausted(r) \/ Aborted(r))
    /\ [][\A r \in Requests :
            /\ Attempting(r)' => attempt'[r] \in 0..(max_retries - 1)
            /\ (pc[r] = "sleep" /\ pc'[r] = "set") => attempt'[r] = attempt[r] + 1
            /\ (~Attempting(r) /\ Attempting(r)') => pc[r] = "start"
            /\ (~Acquired(r) /\ Acquired(r)') => pc[r] = "set"
            /\ (Attempting(r) /\ ~Attempting(r)')
                  => (Acquired(r)' \/ Exhausted(r)' \/ Aborted(r)')
            /\ (Acquired(r) /\ ~Acquired(r)')
                  => \/ pc[r] = "release" /\ Released(r)'
                     \/ pc'[r] = "crashed"
            /\ pc[r] = "done" => pc'[r] = "done"]_vars

\* One call was exhausted after seven refused attempts and the holder of
\* the key has released
C18_Witness ==
    \E r1, r2 \in Requests :
        /\ r1 # r2
        /\ lock_key[r1] = lock_key[r2]
        /\ Exhausted(r1)
        /\ Released(r2)

C20_AsStated ==
    [][\A r \in Requests :
          (pc[r] = "release" /\ Stepped(r))
              => \A k \in Keys :
                    (store[k] # Absent /\ store[k].owner # r) => store'[k] = store[k]]_vars

\* C20: release removes only the releaser's own record, as long as no
\* record of its key expired by TTL while the holder was still in the
\* guarded section: then the DEL issued on exit removes no record created
\* by the SET NX of a different caller.
C20_OwnRecord ==
    [][\A r \in Requests :
          (pc[r] = "release" /\ Stepped(r) /\ ~hist[lock_key[r]].expiredUnderHolder)
              => \A k \in Keys :
                    (store[k] # Absent /\ store[k].owner # r) => store'[k] = store[k]]_vars

\* A holder has issued its DEL while no record had expired under it, and
\* another caller is in the section with a record of its own in the store
C20_Witness ==
    \E r1, r2 \in Requests :
        /\ r1 # r2
        /\ pc[r1] = "done" /\ obs[r1].entered /\ obs[r1].dels = 1
        /\ pc[r2] = "guarded"
        /\ store[lock_key[r2]].owner = r2
        /\ ~hist[lock_key[r1]].expiredUnderHolder

====
